---- MODULE Spec2Model ----
(***************************************************************************)
(* The process-wide resource cache of experimental-simple-cache/cache.ts:  *)
(* createResource(fetchKey, fetch) and the read / preload operations of    *)
(* the handle it returns, together with the promises the loaders return    *)
(* and the microtask queue on which their continuations run.               *)
(***************************************************************************)
EXTENDS Integers, Sequences, FiniteSets, TLC

\* Bound: how many times loaders may be invoked in one behaviour.
MaxLoads == 2

\* Bound: how many callers may be waiting on promises at one time.
MaxWaiters == 1

\* The initial value of an entry: `value: null`.
NULL == "null"

\* The status the rejection continuation of accessData stores.
StatusError == "error"

\* What `return undefined as any` hands back.
UNDEFINED == "undefined"

\* ------------------------------------------------------------------------
\* Inputs and keys

Str(s) == [kind |-> "str", s |-> s, n |-> 0]
Num(n) == [kind |-> "num", s |-> "", n |-> n]

\* The input of read() called with no argument.
Undef == [kind |-> "undef", s |-> "", n |-> 0]

\* The inputs the callers pass to read / preload: a number and two strings.
Inputs == {Num(42), Str("42"), Str("4:42")}

\* The values loaders resolve with and the failures they reject with.
Values == {"v1", "v2"}
Errors == {"network error"}

\* The handles made by createResource(fetchKey, fetch): handles 1 and 2 share
\* a family but carry different loaders, handle 3 has another family.
Handles == {1, 2, 3}

\* The images shown, and the handle preloadImage(src) makes for each: its
\* family is the src itself. "y.png" is an image that fails to load.
ImageSrcs == {"x.png", "y.png", "z.png"}
BrokenSrcs == {"y.png"}
ImageHandle(src) == CASE src = "x.png" -> 4 [] src = "y.png" -> 5 [] src = "z.png" -> 6
ImageSrc(h) == CHOOSE src \in ImageSrcs : ImageHandle(src) = h

fetchKey(h) == IF h = 3 THEN "a:4" ELSE IF h \in {1, 2} THEN "a" ELSE ImageSrc(h)

Digit(d) ==
    CASE d = 0 -> "0" [] d = 1 -> "1" [] d = 2 -> "2" [] d = 3 -> "3"
      [] d = 4 -> "4" [] d = 5 -> "5" [] d = 6 -> "6" [] d = 7 -> "7"
      [] d = 8 -> "8" [] d = 9 -> "9"

RECURSIVE NumToString(_)
NumToString(n) == IF n < 10 THEN Digit(n) ELSE NumToString(n \div 10) \o Digit(n % 10)

\* The string conversion a template literal applies to ${input}.
InputToString(input) ==
    CASE input.kind = "num" -> NumToString(input.n)
      [] input.kind = "undef" -> "undefined"
      [] OTHER -> input.s

\* const key = `${fetchKey}:${input}`
KeyOf(h, input) == fetchKey(h) \o ":" \o InputToString(input)

\* ------------------------------------------------------------------------
\* State

VARIABLES
    resourceCache,  \* the Map: key -> reference to a resource object
    resources,      \* the resource objects {promise, status, value}, by reference
    promises,       \* the promises returned by loaders, by reference
    microtasks,     \* the queue of promise reaction jobs
    invoked,        \* the loader invocations made so far, in order: whose loader
                    \* (the handle's), for which key, and the promise it returned
    last            \* the call made by the step just taken, if it was a read or
                    \* a preload, with what it surfaced to its caller

vars == <<resourceCache, resources, promises, microtasks, invoked, last>>

NoCall ==
    [op |-> "none", h |-> 0, key |-> "", pre |-> "absent", preValue |-> NULL,
     prePromise |-> 0, loaded |-> FALSE, kind |-> "void", val |-> NULL, handle |-> 0]

Init ==
    /\ resourceCache = <<>>
    /\ resources = <<>>
    /\ promises = <<>>
    /\ microtasks = <<>>
    /\ invoked = <<>>
    /\ last = NoCall

\* ------------------------------------------------------------------------
\* accessData

\* Mutant: the has() test is dropped, every call loads.
NeedsLoad_Always(cache, key) == TRUE

\* Mutant: an entry whose load failed is loaded again.
NeedsLoad_RetryFailed(cache, key) ==
    \/ key \notin DOMAIN cache
    \/ resources[cache[key]].status = StatusError

\* if (!resourceCache.has(key))
NeedsLoad(cache, key) == key \notin DOMAIN cache

\* The object literal {promise: fetch(input), status: "pending", value: null}.
NewResource(promise) == [promise |-> promise, status |-> "pending", value |-> NULL]

\* The input slot of a continuation that takes no input.
NoInput == [kind |-> "none", s |-> "", n |-> 0]

\* Mutant: the continuation is not registered when the entry is created.
NewPromise_Unregistered(res) ==
    [state |-> "pending", value |-> NULL, reactions |-> <<>>]

\* The promise fetch(input) returns, with the continuation that
\* resource.promise.then(...) registers on it for resource object `res`.
NewPromise(res) ==
    [state |-> "pending", value |-> NULL,
     reactions |-> <<[kind |-> "entry", res |-> res, h |-> 0, input |-> NoInput]>>]

\* Mutant: the map is rebuilt around the new entry, dropping the others.
CacheSet_Rebuilds(cache, key, ref) == (key :> ref)

\* resourceCache.set(key, resource)
CacheSet(cache, key, ref) == (key :> ref) @@ cache

\* accessData(key, input) called through handle h: the state it leaves.
AccessData(h, key, input) ==
    IF NeedsLoad(resourceCache, key)
    THEN LET ref == Len(resources) + 1
             p == Len(promises) + 1
         IN [resourceCache |-> CacheSet(resourceCache, key, ref),
             resources |-> Append(resources, NewResource(p)),
             promises |-> Append(promises, NewPromise(ref)),
             invoked |-> Append(invoked, [h |-> h, key |-> key, promise |-> p])]
    ELSE [resourceCache |-> resourceCache, resources |-> resources,
          promises |-> promises, invoked |-> invoked]

\* Mutant: the value is not stored on success.
OnFulfilled_DropsValue(resource, value) == [resource EXCEPT !.status = "resolved"]

\* value => { resource.status = "resolved"; resource.value = value; }
OnFulfilled(resource, value) == [resource EXCEPT !.status = "resolved", !.value = value]

\* Mutant: the failure is not stored on rejection.
OnRejected_DropsError(resource, error) == [resource EXCEPT !.status = StatusError]

\* error => { resource.status = "error"; resource.value = error; }
OnRejected(resource, error) == [resource EXCEPT !.status = StatusError, !.value = error]

\* ------------------------------------------------------------------------
\* read and preload

\* Mutant: a pending read surfaces a promise derived from the loader's.
ReadSwitch_DerivedPromise(result) ==
    CASE result.status = "pending" ->
           [kind |-> "suspend", val |-> NULL, handle |-> 0 - result.promise]
      [] result.status = "resolved" ->
           [kind |-> "return", val |-> result.value, handle |-> 0]
      [] result.status = "rejected" ->
           [kind |-> "raise", val |-> result.value, handle |-> 0]
      [] OTHER ->
           [kind |-> "unreachable", val |-> UNDEFINED, handle |-> 0]

\* Mutant: the switch has no case for a resolved entry.
ReadSwitch_NoResolved(result) ==
    CASE result.status = "pending" ->
           [kind |-> "suspend", val |-> NULL, handle |-> result.promise]
      [] result.status = "rejected" ->
           [kind |-> "raise", val |-> result.value, handle |-> 0]
      [] OTHER ->
           [kind |-> "unreachable", val |-> UNDEFINED, handle |-> 0]

\* switch (result.status) of read: what the call surfaces to its caller.
ReadSwitch(result) ==
    CASE result.status = "pending" ->
           [kind |-> "suspend", val |-> NULL, handle |-> result.promise]
      [] result.status = "resolved" ->
           [kind |-> "return", val |-> result.value, handle |-> 0]
      [] result.status = "rejected" ->
           [kind |-> "raise", val |-> result.value, handle |-> 0]
      [] OTHER ->
           [kind |-> "unreachable", val |-> UNDEFINED, handle |-> 0]

\* What the entry of `key` looks like before a call (kept with the call).
PreOf(key) ==
    IF key \in DOMAIN resourceCache
    THEN LET r == resources[resourceCache[key]]
         IN [pre |-> r.status, preValue |-> r.value, prePromise |-> r.promise]
    ELSE [pre |-> "absent", preValue |-> NULL, prePromise |-> 0]

CallRecord(op, h, key, after, out) ==
    LET b == PreOf(key)
    IN [op |-> op, h |-> h, key |-> key, pre |-> b.pre, preValue |-> b.preValue,
        prePromise |-> b.prePromise,
        loaded |-> Len(after.invoked) > Len(invoked),
        kind |-> out.kind, val |-> out.val, handle |-> out.handle]

Commit(after) ==
    /\ Len(after.invoked) <= MaxLoads
    /\ resourceCache' = after.resourceCache
    /\ resources' = after.resources
    /\ promises' = after.promises
    /\ invoked' = after.invoked
    /\ UNCHANGED microtasks

\* resource.read(input)
Read(h, input) ==
    LET key == KeyOf(h, input)
        after == AccessData(h, key, input)
        result == after.resources[after.resourceCache[key]]
    IN /\ Commit(after)
       /\ last' = CallRecord("read", h, key, after, ReadSwitch(result))

\* What preload hands back: nothing.
PreloadResult == [kind |-> "void", val |-> NULL, handle |-> 0]

\* Mutant: preload is written as a call of read and surfaces what read does.
Preload_Surfaces(h, input) ==
    LET key == KeyOf(h, input)
        after == AccessData(h, key, input)
        result == after.resources[after.resourceCache[key]]
    IN /\ Commit(after)
       /\ last' = CallRecord("preload", h, key, after, ReadSwitch(result))

\* resource.preload(input)
Preload(h, input) ==
    LET key == KeyOf(h, input)
        after == AccessData(h, key, input)
    IN /\ Commit(after)
       /\ last' = CallRecord("preload", h, key, after, PreloadResult)

\* ------------------------------------------------------------------------
\* Promises

\* The reaction jobs a settling promise queues, in registration order.
Jobs(reactions, how, arg) ==
    [i \in 1..Len(reactions) |->
        [kind |-> reactions[i].kind, res |-> reactions[i].res, h |-> reactions[i].h,
         input |-> reactions[i].input, how |-> how, arg |-> arg]]

\* The load behind promise p completes: fulfilled with a value or rejected
\* with a failure; its reactions are queued as microtasks.
Settle(p, how, arg) ==
    /\ p \in 1..Len(promises)
    /\ promises[p].state = "pending"
    /\ promises' = [promises EXCEPT ![p] = [state |-> how, value |-> arg, reactions |-> <<>>]]
    /\ microtasks' = microtasks \o Jobs(promises[p].reactions, how, arg)
    /\ last' = NoCall
    /\ UNCHANGED <<resourceCache, resources, invoked>>

\* The head job of the microtask queue runs: the continuation registered in
\* accessData updates its resource object.
RunMicrotask ==
    /\ microtasks # <<>>
    /\ Head(microtasks).kind = "entry"
    /\ LET job == Head(microtasks)
       IN resources' = [resources EXCEPT ![job.res] =
                           IF job.how = "fulfilled"
                           THEN OnFulfilled(@, job.arg)
                           ELSE OnRejected(@, job.arg)]
    /\ microtasks' = Tail(microtasks)
    /\ last' = NoCall
    /\ UNCHANGED <<resourceCache, promises, invoked>>

\* The callers' continuations in a sequence of reactions or of jobs.
Retries(seq) == {i \in 1..Len(seq) : seq[i].kind = "retry"}

\* How many callers wait: on a pending promise or in the microtask queue.
RECURSIVE WaitingOn(_)
WaitingOn(p) ==
    IF p = 0 THEN 0 ELSE Cardinality(Retries(promises[p].reactions)) + WaitingOn(p - 1)

Waiting == WaitingOn(Len(promises)) + Cardinality(Retries(microtasks))

\* A caller reads and is suspended: it waits on the promise it was handed,
\* registering a continuation that calls read again with the same arguments.
\* On a promise that has already settled the continuation is queued at once.
ReadAndWait(h, input) ==
    LET key == KeyOf(h, input)
        after == AccessData(h, key, input)
        result == after.resources[after.resourceCache[key]]
        out == ReadSwitch(result)
        retry == [kind |-> "retry", res |-> 0, h |-> h, input |-> input]
    IN /\ out.kind = "suspend"
       /\ Len(after.invoked) <= MaxLoads
       /\ Waiting < MaxWaiters
       /\ resourceCache' = after.resourceCache
       /\ resources' = after.resources
       /\ invoked' = after.invoked
       /\ IF after.promises[out.handle].state = "pending"
          THEN /\ promises' = [after.promises EXCEPT
                                  ![out.handle].reactions = Append(@, retry)]
               /\ UNCHANGED microtasks
          ELSE /\ promises' = after.promises
               /\ microtasks' = microtasks \o
                     Jobs(<<retry>>, after.promises[out.handle].state,
                          after.promises[out.handle].value)
       /\ last' = CallRecord("read", h, key, after, out)

\* The head job of the microtask queue is a waiting caller's continuation: it
\* calls read again.
RunRetry ==
    /\ microtasks # <<>>
    /\ Head(microtasks).kind = "retry"
    /\ LET job == Head(microtasks)
           key == KeyOf(job.h, job.input)
           after == AccessData(job.h, key, job.input)
           result == after.resources[after.resourceCache[key]]
       IN /\ Len(after.invoked) <= MaxLoads
          /\ resourceCache' = after.resourceCache
          /\ resources' = after.resources
          /\ promises' = after.promises
          /\ invoked' = after.invoked
          /\ last' = CallRecord("retry", job.h, key, after, ReadSwitch(result))
    /\ microtasks' = Tail(microtasks)

Next ==
    \/ \E h \in Handles, input \in Inputs : Read(h, input)
    \/ \E h \in Handles, input \in Inputs : Preload(h, input)
    \/ \E p \in 1..Len(promises), v \in Values : Settle(p, "fulfilled", v)
    \/ \E p \in 1..Len(promises), e \in Errors : Settle(p, "rejected", e)
    \/ RunMicrotask

Spec == Init /\ [][Next]_vars

\* ------------------------------------------------------------------------
\* Loaders that raise

\* The exception a loader raises instead of returning a promise.
LoaderError == "loader exception"

\* Mutant: the entry is put in the map before the loader is called.
AccessDataThrows_StoresFirst(h, key, input) ==
    [resourceCache |-> CacheSet(resourceCache, key, Len(resources) + 1),
     resources |-> Append(resources, NewResource(0)),
     promises |-> promises,
     invoked |-> Append(invoked, [h |-> h, key |-> key, promise |-> 0])]

\* accessData(key, input) for a key with no entry when fetch(input) raises:
\* the object literal is never built, then() and set() are never reached.
AccessDataThrows(h, key, input) ==
    [resourceCache |-> resourceCache,
     resources |-> resources,
     promises |-> promises,
     invoked |-> Append(invoked, [h |-> h, key |-> key, promise |-> 0])]

\* What a call surfaces when accessData raised: the loader's exception.
Raised == [kind |-> "raise", val |-> LoaderError, handle |-> 0]

\* resource.read(input) for a key with no entry, the loader raising.
ReadThrows(h, input) ==
    LET key == KeyOf(h, input)
        after == AccessDataThrows(h, key, input)
    IN /\ NeedsLoad(resourceCache, key)
       /\ Commit(after)
       /\ last' = CallRecord("read", h, key, after, Raised)

\* resource.preload(input) for a key with no entry, the loader raising.
PreloadThrows(h, input) ==
    LET key == KeyOf(h, input)
        after == AccessDataThrows(h, key, input)
    IN /\ NeedsLoad(resourceCache, key)
       /\ Commit(after)
       /\ last' = CallRecord("preload", h, key, after, Raised)

NextThrow ==
    \/ Next
    \/ \E h \in Handles, input \in Inputs : ReadThrows(h, input)
    \/ \E h \in Handles, input \in Inputs : PreloadThrows(h, input)

\* The cache with loaders that may raise when called.
ThrowSpec == Init /\ [][NextThrow]_vars

\* ------------------------------------------------------------------------
\* SuspenseImage

\* img.onload = () => { resolve(src); }
OnLoad(src) == [how |-> "fulfilled", arg |-> src]

\* Mutant: an image that fails to load rejects the promise.
OnError_Rejects(src) == [how |-> "rejected", arg |-> "error event"]

\* img.onerror = error => { console.error(error); resolve(src); }
OnError(src) == [how |-> "fulfilled", arg |-> src]

\* The image behind promise p loads or fails to load. The event is a task of
\* its own: it starts with the microtask queue empty.
ImageEvent(p) ==
    /\ p \in 1..Len(promises)
    /\ microtasks = <<>>
    /\ LET src == fetchKey(invoked[CHOOSE i \in 1..Len(invoked) : invoked[i].promise = p].h)
           ev == IF src \in BrokenSrcs THEN OnError(src) ELSE OnLoad(src)
       IN Settle(p, ev.how, ev.arg)

\* What loadImage surfaces: what read throws; a value read returns is dropped.
LoadImageResult(out) ==
    IF out.kind \in {"suspend", "raise"}
    THEN out
    ELSE [kind |-> "void", val |-> NULL, handle |-> 0]

\* loadImage(src): preloadImage(src).read(). Called from a task, after the
\* microtasks of the tasks before it have run.
LoadImage(src) ==
    LET h == ImageHandle(src)
        key == KeyOf(h, Undef)
        after == AccessData(h, key, Undef)
        result == after.resources[after.resourceCache[key]]
    IN /\ microtasks = <<>>
       /\ Commit(after)
       /\ last' = CallRecord("loadImage", h, key, after, LoadImageResult(ReadSwitch(result)))

\* SuspenseImage(props): if (src != null) loadImage(src), then the <img>.
SuspenseImage(src) ==
    IF src # NULL
    THEN LoadImage(src)
    ELSE /\ microtasks = <<>>
         /\ last' = [NoCall EXCEPT !.op = "render"]
         /\ UNCHANGED <<resourceCache, resources, promises, microtasks, invoked>>

NextImage ==
    \/ \E src \in ImageSrcs \cup {NULL} : SuspenseImage(src)
    \/ \E p \in 1..Len(promises) : ImageEvent(p)
    \/ RunMicrotask

\* The cache as the images of the page use it.
ImageSpec == Init /\ [][NextImage]_vars

\* The cache used by callers that wait on the promise a read surfaced and
\* retry the read from its continuation. The calls made are read(42) and
\* read("4:42") through handle 1 and read(42) through handle 3: two keys, one
\* of them shared by the two handles.
WaitingCalls == {<<1, Num(42)>>, <<1, Str("4:42")>>, <<3, Num(42)>>}

NextRetry ==
    \/ \E c \in WaitingCalls : ReadAndWait(c[1], c[2])
    \/ \E c \in WaitingCalls : Read(c[1], c[2])
    \/ \E c \in WaitingCalls : Preload(c[1], c[2])
    \/ \E p \in 1..Len(promises), v \in Values : Settle(p, "fulfilled", v)
    \/ \E p \in 1..Len(promises), e \in Errors : Settle(p, "rejected", e)
    \/ RunMicrotask
    \/ RunRetry

RetrySpec == Init /\ [][NextRetry]_vars

\* Microtasks always run: the job queue is drained after every task.
FairSpec == Spec /\ WF_vars(RunMicrotask)

\* ------------------------------------------------------------------------
\* Properties

AllKeys == {KeyOf(h, input) : h \in Handles, input \in Inputs}

\* The entry the cache holds for key k.
Entry(k) == resources[resourceCache[k]]

\* The entry the cache holds for key k after the step.
EntryNext(k) == resources'[resourceCache'[k]]

\* The loader invocations made for key k.
LoadsFor(k) == {i \in 1..Len(invoked) : invoked[i].key = k}

IsCall == last.op # "none"

\* C1: deduplication. For every key the loader has been invoked exactly once
\* if the key has an entry and never otherwise; the invocation is made by the
\* first call for the key (the call that finds no entry), every call that
\* finds an entry, pending or terminal, invokes no loader, and there are
\* never more entries than keys.
C1_Deduplication ==
    /\ \A k \in AllKeys :
         Cardinality(LoadsFor(k)) = IF k \in DOMAIN resourceCache THEN 1 ELSE 0
    /\ Len(resources) = Cardinality(DOMAIN resourceCache)
    /\ Len(promises) = Len(invoked)
    /\ IsCall => /\ last.key \in DOMAIN resourceCache
                 /\ last.loaded <=> last.pre = "absent"

\* C1 witness: a call through handle 2 for a key that handle 1 loaded and
\* whose entry is already terminal, and that call invoked no loader.
C1_Witness ==
    /\ IsCall /\ last.h = 2 /\ last.pre = "resolved" /\ ~last.loaded
    /\ \E i \in LoadsFor(last.key) : invoked[i].h = 1

\* The load of the entry a call found has failed and its continuation has
\* run: the promise is rejected and the entry is no longer pending.
FoundFailed ==
    /\ IsCall /\ last.pre \notin {"absent", "pending"}
    /\ promises[last.prePromise].state = "rejected"

\* C2: failure idempotence. A read that finds the entry of its key failed
\* with e raises exactly e and invokes no loader.
C2_FailureIdempotence ==
    (last.op = "read" /\ FoundFailed) =>
        /\ last.kind = "raise"
        /\ last.val = promises[last.prePromise].value
        /\ ~last.loaded

\* C3: success idempotence. A read that finds the entry of its key resolved
\* returns the stored value and invokes no loader, and in every state the
\* value stored in a resolved entry is the one its load produced.
C3_SuccessIdempotence ==
    /\ (last.op = "read" /\ last.pre = "resolved") =>
          /\ last.kind = "return"
          /\ last.val = last.preValue
          /\ ~last.loaded
          /\ Entry(last.key).status = "resolved"
          /\ Entry(last.key).value = last.val
    /\ \A k \in DOMAIN resourceCache :
          Entry(k).status = "resolved" =>
              /\ promises[Entry(k).promise].state = "fulfilled"
              /\ Entry(k).value = promises[Entry(k).promise].value
              /\ Entry(k).value \in Values

\* C3 witness: a read of a resolved entry returned "v2".
C3_Witness ==
    last.op = "read" /\ last.pre = "resolved" /\ last.kind = "return" /\ last.val = "v2"

\* C4: the state of the entry of a key changes only from pending to resolved
\* or from pending to the failed state (stored as "error"); a terminal entry
\* keeps its state, and no read or preload changes the state of an entry
\* that exists.
C4_Monotone ==
    [][\A k \in DOMAIN resourceCache :
          /\ k \in DOMAIN resourceCache'
          /\ LET a == Entry(k).status
                 b == EntryNext(k).status
             IN /\ a # b => a = "pending" /\ b \in {"resolved", StatusError}
                /\ last'.op # "none" => a = b]_vars

\* C4 witness: one entry resolved, another failed, and a read has just been
\* made of a terminal entry.
C4_Witness ==
    /\ \E k \in DOMAIN resourceCache : Entry(k).status = "resolved"
    /\ \E k \in DOMAIN resourceCache : Entry(k).status = StatusError
    /\ last.op = "read" /\ last.pre \notin {"absent", "pending"}

\* C5: every read that finds its entry pending, and the read that creates
\* it, surfaces the promise the one loader invocation for that key returned.
C5_SameHandle ==
    (last.op = "read" /\ last.pre \in {"absent", "pending"}) =>
        /\ last.kind = "suspend"
        /\ \A i \in LoadsFor(last.key) : invoked[i].promise = last.handle
        /\ LoadsFor(last.key) # {}
        /\ last.pre = "pending" => last.handle = last.prePromise

\* C5 witness: a second caller, through another handle, read a key while the
\* entry the first handle created was pending and was handed a promise.
C5_Witness ==
    /\ last.op = "read" /\ last.pre = "pending" /\ last.kind = "suspend"
    /\ \E i \in LoadsFor(last.key) : invoked[i].h # last.h
    /\ last.handle = 2

\* What a preload step leaves alone when the entry exists.
cacheState == <<resourceCache, resources, promises, microtasks, invoked>>

\* C6: preload surfaces nothing, whatever the state of the entry; when the
\* entry is absent it creates it pending and invokes the loader, and when
\* the entry exists it changes nothing.
C6_PreloadSilent ==
    [][last'.op = "preload" =>
          /\ last'.kind = "void" /\ last'.val = NULL /\ last'.handle = 0
          /\ IF last'.key \in DOMAIN resourceCache
             THEN UNCHANGED cacheState
             ELSE /\ last'.key \in DOMAIN resourceCache'
                  /\ EntryNext(last'.key).status = "pending"
                  /\ Len(invoked') = Len(invoked) + 1
                  /\ invoked'[Len(invoked')].key = last'.key]_vars

\* C6 witness: preload has been called on a failed entry while the cache
\* also holds a resolved entry.
C6_Witness ==
    /\ last.op = "preload" /\ FoundFailed
    /\ \E k \in DOMAIN resourceCache : Entry(k).status = "resolved"

\* C7: the read that finds no entry for its key suspends, surfacing the
\* promise of the entry it created, and returns no value; and whenever a
\* load has succeeded with value v, eventually (once the queued continuation
\* has run) read returns v for that key.
C7_SuspendThenValue ==
    /\ [](last.op = "read" /\ last.pre = "absent" =>
            /\ last.loaded
            /\ last.kind = "suspend"
            /\ last.handle = Entry(last.key).promise)
    /\ \A p \in 1..MaxLoads : \A v \in Values :
          (p <= Len(promises) /\ promises[p].state = "fulfilled" /\ promises[p].value = v)
            ~> (\E k \in DOMAIN resourceCache :
                   /\ Entry(k).promise = p
                   /\ ReadSwitch(Entry(k)) = [kind |-> "return", val |-> v, handle |-> 0])

\* C7 witness: the handle whose read created the entry reads the key again
\* after the load succeeded with "v1" and is returned "v1".
C7_Witness ==
    /\ last.op = "read" /\ last.kind = "return" /\ last.val = "v1"
    /\ \E i \in LoadsFor(last.key) :
          /\ invoked[i].h = last.h
          /\ promises[invoked[i].promise].state = "fulfilled"

\* C8: the value of an entry is null whenever the entry is pending, is set
\* (to what its load produced) by the step that makes the entry terminal,
\* and is left as it is by every step once the entry is terminal.
C8_Outcome ==
    [][\A k \in DOMAIN resourceCache' :
          LET b == EntryNext(k)
          IN /\ b.status = "pending" => b.value = NULL
             /\ k \in DOMAIN resourceCache =>
                   LET a == Entry(k)
                   IN /\ (a.status = "pending" /\ b.status # "pending") =>
                            /\ b.value # NULL
                            /\ b.value = promises[b.promise].value
                      /\ a.status # "pending" => b.value = a.value]_vars

\* C8 witness: preload has just been called on an entry that failed with
\* "network error" while another entry is pending with a null value.
C8_Witness ==
    /\ last.op = "preload" /\ last.pre = StatusError
    /\ Entry(last.key).value = "network error"
    /\ \E k \in DOMAIN resourceCache :
          Entry(k).status = "pending" /\ Entry(k).value = NULL

\* C9: an entry, once created, stays in the cache as the same object with
\* the same promise in every later state; and whenever its load has settled
\* the entry eventually becomes terminal, with no read or preload needed.
C9_NoEviction ==
    /\ [][\A k \in DOMAIN resourceCache :
             /\ k \in DOMAIN resourceCache'
             /\ resourceCache'[k] = resourceCache[k]
             /\ EntryNext(k).promise = Entry(k).promise]_vars
    /\ \A p \in 1..MaxLoads :
          (p <= Len(promises) /\ promises[p].state # "pending")
            ~> (\E k \in DOMAIN resourceCache :
                   Entry(k).promise = p /\ Entry(k).status # "pending")

\* C9 witness: two entries, both terminal, the queue drained, and the step
\* that made the last one terminal was not a call.
C9_Witness ==
    /\ Cardinality(DOMAIN resourceCache) = 2
    /\ \A k \in DOMAIN resourceCache : Entry(k).status # "pending"
    /\ microtasks = <<>>
    /\ last.op = "none"

\* C10: the status of every entry is one of those read dispatches on, and
\* every read ends by returning the stored value, raising the stored failure
\* or surfacing the pending promise, never through the default branch.
C10_ReadTotal ==
    /\ \A k \in DOMAIN resourceCache :
          Entry(k).status \in {"pending", "resolved", "rejected"}
    /\ last.op = "read" => last.kind \in {"return", "raise", "suspend"}

\* C11: the continuation that makes the entry terminal is registered on the
\* loader's promise before any caller is handed that promise, so it is the
\* first reaction of every pending promise and is queued ahead of every
\* caller's continuation; a read retried from a continuation of the promise
\* it was handed finds the entry terminal and is not suspended again.
C11_RetryFindsTerminal ==
    /\ \A p \in 1..Len(promises) :
          promises[p].state = "pending" =>
              /\ promises[p].reactions # <<>>
              /\ promises[p].reactions[1].kind = "entry"
              /\ resources[promises[p].reactions[1].res].promise = p
    /\ \A i \in 1..Len(microtasks) :
          microtasks[i].kind = "retry" =>
              LET e == Entry(KeyOf(microtasks[i].h, microtasks[i].input))
              IN \/ e.status # "pending"
                 \/ \E j \in 1..(i - 1) :
                       /\ microtasks[j].kind = "entry"
                       /\ resources[microtasks[j].res] = e
    /\ last.op = "retry" =>
          /\ last.pre \notin {"absent", "pending"}
          /\ last.kind # "suspend"
          /\ ~last.loaded

\* C11 witness: a retried read, run from a continuation, was returned "v2".
C11_Witness ==
    last.op = "retry" /\ last.kind = "return" /\ last.val = "v2"

\* The part of C12 about sharing: an entry is identified by the string
\* fetchKey + ":" + toString(input) alone, calls whose key strings are equal
\* share one entry whatever handle, loader or split between family and input
\* they come from, the one loader invoked for a key is that of the handle
\* that touched it first, and a call through any other handle invokes nothing.
C12_SharedEntry ==
    /\ [](IsCall =>
            /\ \E input \in Inputs :
                  last.key = fetchKey(last.h) \o ":" \o InputToString(input)
            /\ Cardinality(LoadsFor(last.key)) = 1
            /\ \A i \in LoadsFor(last.key) :
                  /\ last.loaded => i = Len(invoked) /\ invoked[i].h = last.h
                  /\ Entry(last.key).promise = invoked[i].promise)
    /\ [][/\ Len(invoked') >= Len(invoked)
          /\ \A i \in 1..Len(invoked) : invoked'[i] = invoked[i]
          /\ (last'.op # "none" /\ last'.key \in DOMAIN resourceCache) =>
                invoked' = invoked]_vars

\* C12: calls whose key strings fetchKey + ":" + toString(input) are equal
\* share one entry; only the loader of the handle that touched the key first
\* is invoked for it, and a read through any handle reports the outcome of
\* that first loader: its promise while the entry is pending, its value once
\* it has succeeded, its failure once it has failed.
C12_KeyIdentity ==
    IsCall =>
        /\ \E input \in Inputs :
              last.key = fetchKey(last.h) \o ":" \o InputToString(input)
        /\ Cardinality(LoadsFor(last.key)) = 1
        /\ \A i \in LoadsFor(last.key) :
              LET first == promises[invoked[i].promise]
              IN /\ last.loaded => invoked[i].h = last.h
                 /\ last.op = "read" =>
                      CASE Entry(last.key).status = "pending" ->
                             last.kind = "suspend" /\ last.handle = invoked[i].promise
                        [] first.state = "fulfilled" ->
                             last.kind = "return" /\ last.val = first.value
                        [] OTHER ->
                             last.kind = "raise" /\ last.val = first.value

\* A read through handle 3 (family "a:4") of a key whose entry was loaded by
\* the loader of handle 1 (family "a", input "4:42") was returned that
\* loader's value.
C12_SharedWitness ==
    /\ last.op = "read" /\ last.h = 3 /\ last.kind = "return" /\ ~last.loaded
    /\ last.key = "a:4:42"
    /\ \E i \in LoadsFor(last.key) :
          invoked[i].h = 1 /\ last.val = promises[invoked[i].promise].value

\* The step just taken was a call whose loader raised.
Threw == IsCall /\ last.kind = "raise" /\ last.val = LoaderError

\* C13: when the loader raises on a call for a key with no entry, the call
\* surfaces that exception, stores no entry for the key and leaves every
\* entry, promise and queued job as it was; and a call for that key made
\* next finds no entry and invokes the loader again.
C13_LoaderRaises ==
    /\ [](Threw => /\ last.pre = "absent"
                   /\ last.loaded
                   /\ last.key \notin DOMAIN resourceCache)
    /\ [][/\ Threw' => /\ UNCHANGED <<resourceCache, resources, promises, microtasks>>
                       /\ Len(invoked') = Len(invoked) + 1
                       /\ invoked'[Len(invoked')].h = last'.h
                       /\ invoked'[Len(invoked')].key = last'.key
          /\ (Threw /\ last'.op # "none" /\ last'.key = last.key) =>
                /\ last'.pre = "absent"
                /\ last'.loaded
                /\ Len(invoked') = Len(invoked) + 1
                /\ invoked'[Len(invoked')].key = last.key]_vars

\* C13 witness: a read invoked the loader and created the entry of a key for
\* which the loader had raised on an earlier call.
C13_Witness ==
    /\ last.op = "read" /\ last.kind = "suspend" /\ last.loaded
    /\ \E i \in 1..(Len(invoked) - 1) :
          invoked[i].key = last.key /\ invoked[i].promise = 0

\* C14: image resources never fail. The promise of an image is fulfilled with
\* its src whether the image loads or fails to load, so the entry of an image
\* is pending or resolved with that src and nothing else; loadImage surfaces
\* the entry's promise while the image is pending, returns normally with no
\* value once the image has loaded or failed, and never raises a failure;
\* SuspenseImage with no src leaves the cache as it was.
C14_ImagesNeverFail ==
    /\ [](/\ \A p \in 1..Len(promises) : promises[p].state # "rejected"
          /\ \A src \in ImageSrcs :
                LET k == src \o ":undefined"
                IN k \in DOMAIN resourceCache =>
                      \/ Entry(k).status = "pending" /\ Entry(k).value = NULL
                      \/ Entry(k).status = "resolved" /\ Entry(k).value = src
          /\ last.op = "loadImage" =>
                /\ last.key \in DOMAIN resourceCache
                /\ IF promises[Entry(last.key).promise].state = "pending"
                   THEN /\ last.kind = "suspend"
                        /\ last.handle = Entry(last.key).promise
                   ELSE /\ last.kind = "void"
                        /\ ~last.loaded)
    /\ [][/\ last'.op = "render" => UNCHANGED cacheState
          /\ \A k \in DOMAIN resourceCache :
                Entry(k).status # EntryNext(k).status =>
                    Entry(k).status = "pending" /\ EntryNext(k).status = "resolved"]_vars

\* C14 witness: loadImage returned normally for the image that failed to load,
\* whose entry is resolved with its src.
C14_Witness ==
    /\ last.op = "loadImage" /\ last.kind = "void" /\ last.key = "y.png:undefined"
    /\ Entry(last.key).status = "resolved" /\ Entry(last.key).value = "y.png"

\* C14 witness of the other part: SuspenseImage has rendered with no src
\* while the cache holds a pending entry.
C14_NoSrcWitness ==
    /\ last.op = "render"
    /\ \E k \in DOMAIN resourceCache : Entry(k).status = "pending"

====
